---- MODULE Spec2Model ----
(***************************************************************************)
(* imap-email-checker (src/main.py): main() loads the configuration, runs  *)
(* check_emails once, registers check_emails as a repeating GLib timeout   *)
(* and enters the GLib main loop.  check_emails logs into the IMAP server, *)
(* reads the UNSEEN status of every configured folder, logs out, sums the  *)
(* report and shows a desktop notification when the sum is nonzero and     *)
(* differs from account['unseen'].  ignore_cb and open_browser_cb are the  *)
(* notification's action and closed callbacks.                             *)
(*                                                                         *)
(* The IMAP server, the notification server and the user are the           *)
(* environment: every value they return (login, select, status and logout  *)
(* responses, the unseen count, the server capabilities, the timer id) is  *)
(* drawn with \E from the values the code distinguishes.                   *)
(***************************************************************************)
EXTENDS Integers, Sequences, FiniteSets, TLC

\* ------------------------------------------------------------ bounds ----
MaxCycles == 3      \* poll cycles started in one run
MaxUnseen == 1      \* largest unseen count the server reports for a folder

\* --------------------------------------------------------- constants ----
SOURCE_REMOVE == FALSE      \* GLib.SOURCE_REMOVE
\* variant of line 135 without the return: None, which GLib takes as FALSE
SOURCE_CONTINUE_Missing == FALSE
SOURCE_CONTINUE == TRUE     \* GLib.SOURCE_CONTINUE

INBOX == <<"I", "N", "B", "O", "X">>
A2 == <<"A", "2">>

\* the folder lists a configuration file may hold
FolderConfigs == { <<INBOX>>, <<INBOX, A2>> }

\* what the file at --config is: a JSON object, a file open() or read()
\* fails on, or a readable file json.loads() rejects
FileKinds == {"ok", "unreadable", "malformed"}

DigitChars == <<"0", "1", "2", "3", "4", "5", "6", "7", "8", "9">>

IsDigit(c) == \E i \in 1..10 : DigitChars[i] = c

DigitValue(c) == (CHOOSE i \in 1..10 : DigitChars[i] = c) - 1

\* '{}'.format(n) / the server's rendering of a count: decimal digits of n
RECURSIVE DecimalStr(_)
DecimalStr(n) ==
    IF n < 10 THEN <<DigitChars[n + 1]>>
    ELSE Append(DecimalStr(n \div 10), DigitChars[(n % 10) + 1])

\* int(s) for a string of decimal digits
RECURSIVE IntOfDigits(_)
IntOfDigits(s) ==
    IF s = <<>> THEN 0
    ELSE 10 * IntOfDigits(SubSeq(s, 1, Len(s) - 1)) + DigitValue(s[Len(s)])

\* data[0] of conn.status(folder, '(UNSEEN)'): the mailbox name followed by
\* the status list, e.g.  INBOX (UNSEEN 3)
StatusData(folder, n) ==
    folder \o <<" ", "(", "U", "N", "S", "E", "E", "N", " ">>
           \o DecimalStr(n) \o <<")">>

\* re.search('[0-9]+', s).group(0): the leftmost longest run of digits
RECURSIVE LeadingDigits(_)
LeadingDigits(s) ==
    IF s = <<>> \/ ~IsDigit(Head(s)) THEN <<>>
    ELSE <<Head(s)>> \o LeadingDigits(Tail(s))

RECURSIVE FirstDigitRun(_)
FirstDigitRun(s) ==
    IF IsDigit(Head(s)) THEN LeadingDigits(s) ELSE FirstDigitRun(Tail(s))

\* line 101: unseen = int(re.search('[0-9]+', data[0].decode('utf-8')).group(0))
ParseUnseen(data) == IntOfDigits(FirstDigitRun(data))

\* ------------------------------------------------------------- state ----
VARIABLES
    mainpc,           \* where main() is: start, startup, register, mainloop, exited
    exitStatus,       \* the process's exit status once mainpc = "exited", else -1
    templatePrinted,  \* the template configuration was printed to stdout
    file,             \* the configuration file: its kind and, if JSON, its content
    caps,             \* pynotify.get_server_caps() holds 'actions'
    account,          \* the account dict, account['unseen'] included
    timerActive,      \* the timeout source is registered and not removed
    cyclepc,          \* where check_emails is: Idle, Connecting, ..., Reporting
    trigger,          \* who called the running/last check_emails: startup or timer
    idx,              \* position in account['folders'] of the for loop
    report,           \* the dict report: folder -> unseen
    replies,          \* per folder position, what the server answered this cycle
    calls,            \* the IMAP calls made on conn in the running/last cycle
    loginRet,         \* ret of conn.login() in the running/last cycle
    logoutRet,        \* ret of conn.logout() in the running/last cycle
    cyclesStarted,    \* number of calls of check_emails so far
    notifs,           \* the notifications shown so far, oldest first
    history           \* one record per returned check_emails call, oldest first

vars == <<mainpc, exitStatus, templatePrinted, file, caps, account, timerActive,
          cyclepc, trigger, idx, report, replies, calls, loginRet, logoutRet,
          cyclesStarted, notifs, history>>

mainVars == <<mainpc, exitStatus, templatePrinted, file, caps, timerActive>>
cycleVars == <<cyclepc, trigger, idx, report, replies, calls, loginRet,
               logoutRet, cyclesStarted, history>>

\* report = dict()
EmptyReport == [f \in {} |-> 0]

NoAccount ==
    [email |-> "", server |-> "", password |-> "", time |-> "",
     notify |-> "", browser_url |-> "", folders |-> <<>>, unseen |-> 0]

\* the object a well-formed configuration file holds (lines 42-50)
Configuration(notify, folders) ==
    [email |-> "name.surname@company.com", server |-> "imap-server.com",
     password |-> "xxxx", time |-> "120", notify |-> notify,
     browser_url |-> "https://mail.company.com", folders |-> folders,
     unseen |-> 0]

Init ==
    /\ mainpc = "start"
    /\ exitStatus = -1
    /\ templatePrinted = FALSE
    /\ file \in [kind : {"ok"},
                 content : { Configuration(n, f) :
                               n \in {"on", "off"}, f \in FolderConfigs }]
            \cup [kind : FileKinds \ {"ok"},
                  content : { Configuration("on", <<INBOX>>) }]
    /\ caps \in BOOLEAN
    /\ account = NoAccount
    /\ timerActive = FALSE
    /\ cyclepc = "Idle"
    /\ trigger = "none"
    /\ idx = 0
    /\ report = EmptyReport
    /\ replies = <<>>
    /\ calls = <<>>
    /\ loginRet = "none"
    /\ logoutRet = "none"
    /\ cyclesStarted = 0
    /\ notifs = <<>>
    /\ history = <<>>

\* ------------------------------------------------ get_configuration ----
\* variant of lines 38-51 without the sys.exit(1): the handler falls through
\* to the return of line 53
get_configuration_NoExit(kind) ==
    CASE kind = "ok"         -> [loaded |-> TRUE,  template |-> FALSE, status |-> -1]
      [] kind = "unreadable" -> [loaded |-> TRUE,  template |-> TRUE,  status |-> -1]
      [] kind = "malformed"  -> [loaded |-> FALSE, template |-> FALSE, status |-> 1]

\* lines 34-53: open/read raising IOError prints the template and exits 1;
\* json.loads raising json.JSONDecodeError (a ValueError, no IOError) is
\* not caught: the exception leaves main() and the interpreter exits with
\* status 1 after a traceback on stderr, the template unprinted.
get_configuration(kind) ==
    CASE kind = "ok"         -> [loaded |-> TRUE,  template |-> FALSE, status |-> -1]
      [] kind = "unreadable" -> [loaded |-> FALSE, template |-> TRUE,  status |-> 1]
      [] kind = "malformed"  -> [loaded |-> FALSE, template |-> FALSE, status |-> 1]

\* lines 145-149 of main(): load the file, account['unseen'] = 0, pynotify.init
LoadConfiguration ==
    /\ mainpc = "start"
    /\ LET r == get_configuration(file.kind) IN
        IF r.loaded
        THEN /\ account' = [file.content EXCEPT !.unseen = 0]
             /\ mainpc' = "startup"
             /\ exitStatus' = r.status
             /\ templatePrinted' = r.template
        ELSE /\ mainpc' = "exited"
             /\ exitStatus' = r.status
             /\ templatePrinted' = r.template
             /\ UNCHANGED account
    /\ UNCHANGED <<file, caps, timerActive, cycleVars, notifs>>

\* ------------------------------------------------------ check_emails ----
\* main() line 150: the immediate call, before the timer exists
StartupCycle ==
    /\ mainpc = "startup"
    /\ cyclepc = "Idle"
    /\ cyclesStarted < MaxCycles
    /\ cyclepc' = "Connecting"
    /\ trigger' = "startup"
    /\ cyclesStarted' = cyclesStarted + 1
    /\ idx' = 0
    /\ report' = EmptyReport
    /\ replies' = <<>>
    /\ calls' = <<>>
    /\ loginRet' = "none"
    /\ logoutRet' = "none"
    /\ UNCHANGED <<mainVars, account, notifs, history>>

\* variant in which a source is dispatched while a callback is running
Dispatching_Reentrant == mainpc = "mainloop"

\* mainloop.run() (line 160) dispatches timeouts and D-Bus signals one at a
\* time on the one thread, only between callbacks
Dispatching == mainpc = "mainloop" /\ cyclepc = "Idle"

\* the GLib main loop dispatches the timeout source: it calls check_emails
\* once the previous callback has returned
TimerTick ==
    /\ Dispatching
    /\ timerActive
    /\ cyclesStarted < MaxCycles
    /\ cyclepc' = "Connecting"
    /\ trigger' = "timer"
    /\ cyclesStarted' = cyclesStarted + 1
    /\ idx' = 0
    /\ report' = EmptyReport
    /\ replies' = <<>>
    /\ calls' = <<>>
    /\ loginRet' = "none"
    /\ logoutRet' = "none"
    /\ UNCHANGED <<mainVars, account, notifs, history>>

\* line 72: conn = imaplib.IMAP4_SSL(account['server'])
Connect ==
    /\ cyclepc = "Connecting"
    /\ calls' = Append(calls, "connect")
    /\ cyclepc' = "Authenticating"
    /\ UNCHANGED <<mainVars, account, notifs, trigger, idx, report, replies,
                   loginRet, logoutRet, cyclesStarted, history>>

\* what the caller of check_emails does with the value it returns:
\* main() line 150 drops it, the GLib timeout source (lines 153-154)
\* stays registered on SOURCE_CONTINUE and is removed on SOURCE_REMOVE
TimerAfterReturn(trig, directive, active) ==
    IF trig = "startup" THEN active ELSE directive

\* where main() is after check_emails has returned
MainAfterReturn(trig, pc) ==
    IF trig = "startup" THEN "register" ELSE pc

\* variant of the loop exit that falls to line 112, past the logout
AfterFolder_NoLogout(i, folders) ==
    IF i > Len(folders) THEN "Reporting" ELSE "CheckingFolder"

\* line 84: for folder in account['folders'], about to take position i:
\* the loop body, or line 107 once the list is exhausted
AfterFolder(i, folders) ==
    IF i > Len(folders) THEN "LoggingOut" ELSE "CheckingFolder"

\* variant of line 76 that takes every login response for a success
LoginFailed_Never(ret) == FALSE

\* line 76: if ret != 'OK'
LoginFailed(ret) == ret # "OK"

\* lines 74-82: login; on failure LOG.fatal and return GLib.SOURCE_REMOVE
Login(ret) ==
    /\ cyclepc = "Authenticating"
    /\ calls' = Append(calls, "login")
    /\ loginRet' = ret
    /\ IF LoginFailed(ret)
       THEN /\ cyclepc' = "Idle"
            /\ history' = Append(history,
                  [trigger |-> trigger, auth |-> FALSE, total |-> 0,
                   before |-> account.unseen, after |-> account.unseen,
                   emitted |-> 0, directive |-> SOURCE_REMOVE])
            /\ timerActive' = TimerAfterReturn(trigger, SOURCE_REMOVE, timerActive)
            /\ mainpc' = MainAfterReturn(trigger, mainpc)
            /\ UNCHANGED <<idx, report>>
       ELSE /\ report' = EmptyReport
            /\ idx' = 1
            /\ cyclepc' = AfterFolder(1, account.folders)
            /\ UNCHANGED <<history, timerActive, mainpc>>
    /\ UNCHANGED <<exitStatus, templatePrinted, file, caps, account, notifs,
                   trigger, replies, logoutRet, cyclesStarted>>

\* lines 104-105: if unseen: report[folder] = unseen
Record(rep, folder, unseen) ==
    IF unseen # 0
    THEN [f \in DOMAIN rep \cup {folder} |->
             IF f = folder THEN unseen ELSE rep[f]]
    ELSE rep

\* variant of line 87 in which a failed select does not skip the folder
SelectFailed_Never(ret) == FALSE

\* line 87: if ret != 'OK' after conn.select(folder)
SelectFailed(ret) == ret # "OK"

\* line 94: if ret != 'OK' after conn.status(folder, '(UNSEEN)')
StatusFailed(ret) == ret # "OK"

\* lines 84-105, one iteration of the for loop on account['folders'][idx]:
\* select, status, close, parse; a failed select or status skips the folder
CheckFolder(selRet, statRet, n) ==
    /\ cyclepc = "CheckingFolder"
    /\ LET folder == account.folders[idx] IN
        IF SelectFailed(selRet)
        THEN /\ statRet = "OK" /\ n = 0    \* neither is asked for
             /\ calls' = Append(calls, "select")
             /\ replies' = Append(replies,
                   [select |-> selRet, status |-> "none", unseen |-> 0])
             /\ UNCHANGED report
        ELSE IF StatusFailed(statRet)
        THEN /\ n = 0                      \* no count comes with a failure
             /\ calls' = calls \o <<"select", "status">>
             /\ replies' = Append(replies,
                   [select |-> selRet, status |-> statRet, unseen |-> 0])
             /\ UNCHANGED report
        ELSE /\ calls' = calls \o <<"select", "status", "close">>
             /\ replies' = Append(replies,
                   [select |-> selRet, status |-> statRet, unseen |-> n])
             /\ report' = Record(report, folder, ParseUnseen(StatusData(folder, n)))
    /\ idx' = idx + 1
    /\ cyclepc' = AfterFolder(idx + 1, account.folders)
    /\ UNCHANGED <<mainVars, account, notifs, trigger, loginRet, logoutRet,
                   cyclesStarted, history>>

\* lines 107-110: logout; anything but BYE is a warning in the log
Logout(ret) ==
    /\ cyclepc = "LoggingOut"
    /\ calls' = Append(calls, "logout")
    /\ logoutRet' = ret
    /\ cyclepc' = "Reporting"
    /\ UNCHANGED <<mainVars, account, notifs, trigger, idx, report, replies,
                   loginRet, cyclesStarted, history>>

\* line 112: sum([unseen for unseen in report.values()])
RECURSIVE SumValues(_)
SumValues(rep) ==
    IF DOMAIN rep = {} THEN 0
    ELSE LET f == CHOOSE x \in DOMAIN rep : TRUE
         IN rep[f] + SumValues([g \in DOMAIN rep \ {f} |-> rep[g]])

\* variants of the test of line 114 with one of its two conjuncts lost
Changed_IgnoresZero(total, last) == total # last
Changed_IgnoresLast(total, last) == total # 0

\* line 114: if unseen and unseen != account['unseen']
Changed(total, last) == total # 0 /\ total # last

\* variant of lines 119-133 not guarded by the notify setting
NotifyEnabled_Always(acc) == TRUE

\* variant of line 115 that stores the total under the wrong key
SetUnseen_WrongKey(acc, total) == [acc EXCEPT !.time = ToString(total)]

\* line 115: account['unseen'] = unseen
SetUnseen(acc, total) == [acc EXCEPT !.unseen = total]

\* line 119: if account['notify'] == 'on'
NotifyEnabled(acc) == acc.notify = "on"

\* variant of line 120 that formats the text of the debug log of line 117
Message_LogText(total) ==
    DecimalStr(total) \o <<" ", "unseen", " ", "e-email(s)">>

\* line 120: '{} unseen e-mails'.format(unseen)
Message(total) ==
    DecimalStr(total) \o <<" ", "unseen", " ", "e-mails">>

\* variant of line 120 that formats account['unseen'] as it was before
\* line 115
Notification_AnnouncesOld(total, acc, withActions) ==
    [message |-> Message(acc.unseen),
     actions |-> withActions,
     browser_url |-> IF withActions THEN acc.browser_url ELSE "unset",
     ignore |-> FALSE,
     state |-> "shown",
     dismissed |-> FALSE,
     opened |-> <<>>]

\* lines 122-133: the notification shown; with the 'actions' capability it
\* carries the close action (ignore_cb), the data browser_url and ignore,
\* and the closed callback (open_browser_cb).  dismissed and opened record
\* what happened to it afterwards.
Notification(total, acc, withActions) ==
    [message |-> Message(total),
     actions |-> withActions,
     browser_url |-> IF withActions THEN acc.browser_url ELSE "unset",
     ignore |-> FALSE,
     state |-> "shown",
     dismissed |-> FALSE,
     opened |-> <<>>]

\* lines 112-135: sum the report, update account['unseen'], notify,
\* return GLib.SOURCE_CONTINUE
Report ==
    /\ cyclepc = "Reporting"
    /\ LET total == SumValues(report)
           upd == Changed(total, account.unseen)
           show == upd /\ NotifyEnabled(account)
       IN /\ account' = IF upd THEN SetUnseen(account, total) ELSE account
          /\ notifs' = IF show THEN Append(notifs, Notification(total, account, caps))
                       ELSE notifs
          /\ history' = Append(history,
                [trigger |-> trigger, auth |-> TRUE, total |-> total,
                 before |-> account.unseen, after |-> account'.unseen,
                 emitted |-> Len(notifs') - Len(notifs),
                 directive |-> SOURCE_CONTINUE])
    /\ cyclepc' = "Idle"
    /\ timerActive' = TimerAfterReturn(trigger, SOURCE_CONTINUE, timerActive)
    /\ mainpc' = MainAfterReturn(trigger, mainpc)
    /\ UNCHANGED <<exitStatus, templatePrinted, file, caps, trigger, idx, report,
                   replies, calls, loginRet, logoutRet, cyclesStarted>>

\* -------------------------------------------------------------- main ----
\* GLib.timeout_add_seconds returns the id of the new event source, which
\* is always greater than 0
EventIds == {1}

\* lines 152-160: create the main loop, register the timeout, exit 1 when
\* timeout_add_seconds returns no event id, else run the main loop
RegisterTimer(event_id) ==
    /\ mainpc = "register"
    /\ IF event_id = 0
       THEN /\ mainpc' = "exited"
            /\ exitStatus' = 1
            /\ UNCHANGED timerActive
       ELSE /\ mainpc' = "mainloop"
            /\ timerActive' = TRUE
            /\ UNCHANGED exitStatus
    /\ UNCHANGED <<templatePrinted, file, caps, account, notifs, cycleVars>>

\* ---------------------------------------------- notification callbacks ----

\* variant of ignore_cb that closes without marking the notification
SetIgnore_Forgotten(n) == n

\* line 58: notification.set_data('ignore', True)
SetIgnore(n) == [n EXCEPT !.ignore = TRUE]

\* lines 56-59: the user invokes the 'close' action: mark the notification
\* ignored and close it (the server then signals closed)
ignore_cb(i) ==
    /\ Dispatching
    /\ notifs[i].actions
    /\ notifs[i].state = "shown"
    /\ notifs' = [notifs EXCEPT
                    ![i] = [SetIgnore(@) EXCEPT !.dismissed = TRUE,
                                                !.state = "closing"]]
    /\ UNCHANGED <<mainVars, account, cycleVars>>

\* line 64: if not notification.get_data('ignore')
OpensBrowser(n) == ~n.ignore

\* lines 62-67: the closed signal of a notification, closed by the user, by
\* the server or by ignore_cb: open the browser unless ignored, then close
open_browser_cb(i) ==
    /\ Dispatching
    /\ notifs[i].actions
    /\ notifs[i].state \in {"shown", "closing"}
    /\ notifs' = [notifs EXCEPT
                    ![i] = [@ EXCEPT
                       !.opened = IF OpensBrowser(notifs[i])
                                  THEN Append(@, notifs[i].browser_url) ELSE @,
                       !.state = "closed"]]
    /\ UNCHANGED <<mainVars, account, cycleVars>>

Next ==
    \/ LoadConfiguration
    \/ StartupCycle
    \/ TimerTick
    \/ Connect
    \/ \E ret \in {"OK", "NO"} : Login(ret)
    \/ \E selRet \in {"OK", "NO"}, statRet \in {"OK", "NO"}, n \in 0..MaxUnseen :
          CheckFolder(selRet, statRet, n)
    \/ \E ret \in {"BYE", "NO"} : Logout(ret)
    \/ Report
    \/ \E event_id \in EventIds : RegisterTimer(event_id)
    \/ \E i \in 1..Len(notifs) : ignore_cb(i)
    \/ \E i \in 1..Len(notifs) : open_browser_cb(i)

Spec == Init /\ [][Next]_vars

\* ------------------------------------------------------------ claims ----
\* C1: in every poll cycle that computes a total, account['unseen'] changes
\* if and only if the total is nonzero and differs from the value before
\* the cycle, and it then becomes the total; when the total is 0 or equals
\* the previous value the counter is unchanged and nothing is notified.
\* The recorded values are those of the counter: each cycle starts from
\* the value the previous one left, and the counter holds the last one.
C1_UpdateIffNonzeroAndDifferent ==
    /\ \A i \in DOMAIN history :
         LET h == history[i] IN
         h.auth =>
           /\ (h.after # h.before) <=> (h.total # 0 /\ h.total # h.before)
           /\ (h.total # 0 /\ h.total # h.before) => h.after = h.total
           /\ (h.total = 0 \/ h.total = h.before) =>
                 (h.after = h.before /\ h.emitted = 0)
    /\ \A i \in DOMAIN history :
         history[i].before =
             IF i = 1 THEN 0 ELSE history[i - 1].after
    /\ history # <<>> => account.unseen = history[Len(history)].after

\* C1 witness: a cycle changed a nonzero counter to another nonzero total,
\* and a later cycle with a total of 0 left it alone
C1_Witness ==
    \E i \in DOMAIN history : \E j \in DOMAIN history :
        /\ i < j
        /\ history[i].auth /\ history[i].before # 0
        /\ history[i].total # 0 /\ history[i].after # history[i].before
        /\ history[j].auth /\ history[j].total = 0
        /\ history[j].after = history[j].before

\* C2: of two consecutive poll cycles with the same nonzero total, the
\* second emits no notification
C2_NoRepeatedNotification ==
    \A i \in DOMAIN history :
        (/\ i + 1 \in DOMAIN history
         /\ history[i].auth /\ history[i + 1].auth
         /\ history[i].total # 0
         /\ history[i + 1].total = history[i].total)
        => history[i + 1].emitted = 0

\* C2 witness: with notify on, a cycle announced a total and the next cycle
\* found the same total
C2_Witness ==
    \E i \in DOMAIN history :
        /\ i + 1 \in DOMAIN history
        /\ account.notify = "on"
        /\ history[i].auth /\ history[i + 1].auth
        /\ history[i].total # 0 /\ history[i].emitted = 1
        /\ history[i + 1].total = history[i].total
        /\ history[i + 1].emitted = 0

\* three successive authenticated cycles ending at i with totals T, 0, T
ReturnToTotal(i) ==
    /\ i - 2 \in DOMAIN history /\ i \in DOMAIN history
    /\ history[i - 2].auth /\ history[i - 1].auth /\ history[i].auth
    /\ history[i - 2].total # 0
    /\ history[i - 1].total = 0
    /\ history[i].total = history[i - 2].total

\* C3 as claimed: with notify on, the third of three successive cycles with
\* totals T, 0, T emits a notification
C3_Original_ReturnNotifies ==
    \A i \in DOMAIN history :
        (account.notify = "on" /\ ReturnToTotal(i)) => history[i].emitted >= 1

\* C3 as amended: with notify on, the third of three successive cycles
\* with totals T, 0, T emits no notification: the cycle with total 0 left
\* account['unseen'] at T, so the third total equals it
C3_ReturnDoesNotNotify ==
    \A i \in DOMAIN history :
        (account.notify = "on" /\ ReturnToTotal(i)) =>
            /\ history[i - 1].after = history[i].total
            /\ history[i].emitted = 0
            /\ history[i].after = history[i].total

\* C3 witness: three successive cycles T, 0, T with notify on, the first
\* of which was announced
C3_Witness ==
    \E i \in DOMAIN history :
        /\ account.notify = "on"
        /\ ReturnToTotal(i)
        /\ history[i - 2].emitted = 1

C5_AuthFailureStopsPolling ==
    \A i \in DOMAIN history :
        ~history[i].auth =>
            /\ history[i].directive = SOURCE_REMOVE
            /\ cyclesStarted = i
            /\ mainpc # "exited"

\* every configured folder failed its select or its status in the cycle
\* that has just returned
AllFoldersFailed ==
    /\ cyclepc = "Idle"
    /\ history # <<>>
    /\ history[Len(history)].auth
    /\ Len(replies) = Len(account.folders)
    /\ \A k \in DOMAIN replies :
          replies[k].select # "OK" \/ replies[k].status = "NO"

\* C6: an authenticated cycle in which every folder's select or status
\* fails has total 0, emits nothing and leaves account['unseen'] alone
C6_AllFoldersFailed ==
    AllFoldersFailed =>
        LET h == history[Len(history)] IN
        /\ h.total = 0
        /\ h.emitted = 0
        /\ h.after = h.before
        /\ account.unseen = h.before

\* C6 witness: with a nonzero counter, a cycle in which one folder's
\* select and the other's status failed
C6_Witness ==
    /\ AllFoldersFailed
    /\ account.unseen # 0
    /\ \E k \in DOMAIN replies : replies[k].select = "NO"
    /\ \E k \in DOMAIN replies : replies[k].status = "NO"

\* cycle i is the first of the run with a nonzero total
FirstNonzero(i) ==
    /\ i \in DOMAIN history
    /\ history[i].auth /\ history[i].total # 0
    /\ \A j \in 1..(i - 1) : ~(history[j].auth /\ history[j].total # 0)

\* C7: with notify on, the first cycle of the run with a nonzero total T
\* takes account['unseen'] from 0 to T and emits exactly one notification,
\* the first of the run, whose message is the decimal T followed by
\* " unseen e-mails"
C7_FirstNonzeroNotifies ==
    \A i \in DOMAIN history :
        (account.notify = "on" /\ FirstNonzero(i)) =>
            /\ history[i].before = 0
            /\ history[i].after = history[i].total
            /\ history[i].emitted = 1
            /\ notifs # <<>>
            /\ LET m == notifs[1].message IN
               /\ Len(m) > 4
               /\ SubSeq(m, Len(m) - 3, Len(m)) = <<" ", "unseen", " ", "e-mails">>
               /\ \A k \in 1..(Len(m) - 4) : IsDigit(m[k])
               /\ m[1] # "0"
               /\ IntOfDigits(SubSeq(m, 1, Len(m) - 4)) = history[i].total

\* C7 witness: after a cycle with total 0, a cycle with total 3 was
\* announced as "3 unseen e-mails"
C7_Witness ==
    \E i \in DOMAIN history :
        /\ i > 1
        /\ account.notify = "on"
        /\ FirstNonzero(i)
        /\ history[i].total = 3
        /\ notifs[1].message = <<"3", " ", "unseen", " ", "e-mails">>

\* C8: for a notification shown with the 'actions' capability, once its
\* closed callback has run the browser was opened, once and on
\* account['browser_url'], if the close action was never invoked, and no
\* browser is ever opened for a notification dismissed through the action
C8_BrowserUnlessDismissed ==
    \A i \in DOMAIN notifs :
        notifs[i].actions =>
            /\ notifs[i].dismissed => notifs[i].opened = <<>>
            /\ (notifs[i].state = "closed" /\ ~notifs[i].dismissed) =>
                  notifs[i].opened = <<account.browser_url>>

\* C8 witness: one notification was dismissed through the action and then
\* closed, another was closed without it
C8_Witness ==
    \E i \in DOMAIN notifs : \E j \in DOMAIN notifs :
        /\ notifs[i].actions /\ notifs[i].dismissed
        /\ notifs[i].state = "closed"
        /\ notifs[j].actions /\ ~notifs[j].dismissed
        /\ notifs[j].state = "closed"
        /\ notifs[j].opened # <<>>

\* C9 as claimed: a readable but malformed configuration file ends the
\* process with exit status 1 and the template printed
C9_MalformedPrintsTemplate ==
    (file.kind = "malformed" /\ mainpc = "exited") =>
        (exitStatus = 1 /\ templatePrinted)

\* C10: with an unreadable configuration file the process prints the
\* template and exits with status 1, and no IMAP call is made, no cycle
\* runs, no notification is shown and no timer is registered
C10_UnreadableExitsFirst ==
    file.kind = "unreadable" =>
        /\ mainpc \in {"start", "exited"}
        /\ mainpc = "exited" => (exitStatus = 1 /\ templatePrinted)
        /\ cyclesStarted = 0
        /\ cyclepc = "Idle"
        /\ calls = <<>>
        /\ history = <<>>
        /\ notifs = <<>>
        /\ ~timerActive

\* C10 witness: the process has exited on an unreadable file
C10_Witness ==
    /\ file.kind = "unreadable"
    /\ mainpc = "exited"
    /\ exitStatus = 1
    /\ templatePrinted

\* C11: exactly one poll cycle, the startup one, runs and returns before
\* the timer is registered; every later cycle is started by a timer tick;
\* and at most one cycle is in progress at any time: a cycle starts only
\* after every earlier one has returned
C11_OneCycleAtATime ==
    /\ cyclesStarted - Len(history) = IF cyclepc = "Idle" THEN 0 ELSE 1
    /\ \A i \in DOMAIN history :
          history[i].trigger = IF i = 1 THEN "startup" ELSE "timer"
    /\ cyclepc # "Idle" =>
          trigger = IF cyclesStarted = 1 THEN "startup" ELSE "timer"
    /\ (cyclepc # "Idle" /\ trigger = "startup") =>
          (mainpc = "startup" /\ ~timerActive)
    /\ mainpc = "register" =>
          (cyclesStarted = 1 /\ Len(history) = 1 /\ ~timerActive)
    /\ timerActive => (mainpc = "mainloop" /\ Len(history) >= 1)
    /\ mainpc = "mainloop" => cyclesStarted >= 1

\* C11 witness: the third cycle, the second started by the timer, is in
\* progress after the two before it have returned
C11_Witness ==
    /\ cyclesStarted = 3
    /\ Len(history) = 2
    /\ cyclepc = "CheckingFolder"
    /\ trigger = "timer"
    /\ history[1].trigger = "startup"
    /\ history[2].trigger = "timer"

\* the check_emails call that has just returned had a successful login
AuthenticatedCycleReturned ==
    /\ cyclepc = "Idle"
    /\ history # <<>>
    /\ history[Len(history)].auth

\* C12: every cycle whose login succeeds returns the continue directive,
\* and a timer cycle leaves the timer active so that a further tick can
\* start a cycle (up to MaxCycles); the counter update and the
\* notification are decided by the total, the previous counter and notify
\* alone, the same for a logout answered BYE and for one answered
\* otherwise, and for every mix of folder failures
C12_AuthenticatedContinues ==
    /\ \A i \in DOMAIN history :
          history[i].auth => history[i].directive = TRUE
    /\ AuthenticatedCycleReturned =>
          LET h == history[Len(history)]
              differs == h.total # 0 /\ h.total # h.before
          IN /\ logoutRet \in {"BYE", "NO"}
             /\ h.after = IF differs THEN h.total ELSE h.before
             /\ h.emitted = IF differs /\ account.notify = "on" THEN 1 ELSE 0
             /\ h.trigger = "timer" => timerActive
             /\ (mainpc = "mainloop" /\ cyclesStarted < MaxCycles) =>
                   ENABLED TimerTick

\* C12 witness: a timer cycle with a failed select, a failed status and a
\* logout not answered BYE has returned, and the timer is still active
C12_Witness ==
    /\ AuthenticatedCycleReturned
    /\ history[Len(history)].trigger = "timer"
    /\ logoutRet = "NO"
    /\ \E k \in DOMAIN replies : replies[k].select = "NO"
    /\ \E k \in DOMAIN replies : replies[k].status = "NO"
    /\ timerActive

\* folder position k was selected and queried with success in this cycle
Answered(k) == replies[k].select = "OK" /\ replies[k].status = "OK"

\* the sum of the counts the server reported for the answered folders
RECURSIVE ServerSum(_)
ServerSum(reps) ==
    IF reps = <<>> THEN 0
    ELSE LET r == reps[Len(reps)]
         IN ServerSum(SubSeq(reps, 1, Len(reps) - 1))
            + (IF r.select = "OK" /\ r.status = "OK" THEN r.unseen ELSE 0)

\* the IMAP calls the folders answered so far account for: one select per
\* folder, a status after a successful select, a close after a successful
\* status, in configured order and without repetition
RECURSIVE FolderCalls(_)
FolderCalls(reps) ==
    IF reps = <<>> THEN <<>>
    ELSE LET r == reps[Len(reps)]
         IN FolderCalls(SubSeq(reps, 1, Len(reps) - 1)) \o
            (IF r.select # "OK" THEN <<"select">>
             ELSE IF r.status # "OK" THEN <<"select", "status">>
             ELSE <<"select", "status", "close">>)

\* in a cycle past its login, the folders before position idx have been
\* processed once each, in order, whatever failed before them
FoldersInOrder ==
    cyclepc \in {"CheckingFolder", "LoggingOut"} =>
        /\ Len(replies) = idx - 1
        /\ idx - 1 <= Len(account.folders)
        /\ cyclepc = "LoggingOut" => Len(replies) = Len(account.folders)
        /\ calls = <<"connect", "login">> \o FolderCalls(replies)

\* C13 as claimed: folders are processed in configured order, a failure
\* skips only its folder, and the total of an authenticated cycle is the
\* sum of the counts the server reported for the folders whose select and
\* status both succeeded
C13_TotalIsSumOfAnswered ==
    /\ FoldersInOrder
    /\ AuthenticatedCycleReturned =>
          /\ Len(replies) = Len(account.folders)
          /\ history[Len(history)].total = ServerSum(replies)

\* C14 as claimed: for every folder whose select and status succeeded, the
\* report holds the count the server gave after UNSEEN, and holds the
\* folder only if that count is greater than zero
C14_ReportHoldsServerCount ==
    \A k \in DOMAIN replies :
        Answered(k) =>
            LET folder == account.folders[k] IN
            IF replies[k].unseen > 0
            THEN folder \in DOMAIN report /\ report[folder] = replies[k].unseen
            ELSE folder \notin DOMAIN report

\* what line 101 reads from the status lines of the first k folders,
\* summed over the answered ones
RECURSIVE ParsedSum(_, _)
ParsedSum(folders, reps) ==
    IF reps = <<>> THEN 0
    ELSE LET k == Len(reps)
             r == reps[k]
         IN ParsedSum(folders, SubSeq(reps, 1, k - 1))
            + (IF r.select = "OK" /\ r.status = "OK"
               THEN ParseUnseen(StatusData(folders[k], r.unseen)) ELSE 0)

\* C15: with notify other than "on" no cycle emits a notification, and
\* the counter and the directive of every cycle are fixed by the server's
\* responses alone: the directive by the login response, the total by the
\* folder responses, the counter by the total and the counter before; so
\* two runs fed the same responses, one with notify "on" and one without,
\* go through the same counters and directives
C15_NotifyOnlyGatesEmission ==
    /\ account.notify # "on" =>
          (notifs = <<>> /\ \A i \in DOMAIN history : history[i].emitted = 0)
    /\ \A i \in DOMAIN history :
          LET h == history[i] IN
          /\ h.directive = h.auth
          /\ h.before = IF i = 1 THEN 0 ELSE history[i - 1].after
          /\ h.after = IF h.auth /\ h.total # 0 /\ h.total # h.before
                       THEN h.total ELSE h.before
    /\ (cyclepc = "Idle" /\ history # <<>>) =>
          /\ history[Len(history)].auth = (loginRet = "OK")
          /\ history[Len(history)].auth =>
                history[Len(history)].total = ParsedSum(account.folders, replies)

\* C15 witness: with notify "off", a cycle moved the counter from one
\* nonzero total to another and nothing was ever shown
C15_Witness ==
    /\ mainpc = "mainloop"
    /\ account.notify = "off"
    /\ notifs = <<>>
    /\ \E i \in DOMAIN history :
          /\ history[i].before # 0
          /\ history[i].after # history[i].before
          /\ history[i].directive = TRUE

\* the moves of check_emails from one stage of a cycle to the next
CycleOrder ==
    { <<"Idle", "Connecting">>, <<"Connecting", "Authenticating">>,
      <<"Authenticating", "CheckingFolder">>, <<"Authenticating", "Idle">>,
      <<"CheckingFolder", "LoggingOut">>, <<"LoggingOut", "Reporting">>,
      <<"Reporting", "Idle">> }

\* logout has been called once, as the last IMAP call, after every folder
LoggedOutOnceAfterFolders ==
    /\ Len(replies) = Len(account.folders)
    /\ calls = <<"connect", "login">> \o FolderCalls(replies) \o <<"logout">>

\* where the stages of a cycle stand with respect to the logout, the
\* counter update and the return
CycleStages ==
    /\ FoldersInOrder
    /\ cyclepc = "Reporting" =>
          /\ LoggedOutOnceAfterFolders
          /\ Len(history) = cyclesStarted - 1
          /\ account.unseen = IF history = <<>> THEN 0
                              ELSE history[Len(history)].after
    /\ AuthenticatedCycleReturned => LoggedOutOnceAfterFolders
    /\ cyclepc = "Idle" =>
          /\ Len(history) = cyclesStarted
          /\ \A i \in DOMAIN history : history[i].directive \in BOOLEAN

\* a step of a cycle moves to the next stage in order or, in the folder
\* loop, to the next folder; it leaves Authenticating for Idle only on a
\* failed login, and changes the counter or shows a notification only on
\* the return from Reporting
CycleMove ==
    /\ cyclepc' # cyclepc => <<cyclepc, cyclepc'>> \in CycleOrder
    /\ cyclepc # "Idle" =>
          \/ cyclepc' # cyclepc
          \/ /\ cyclepc = "CheckingFolder"
             /\ idx <= Len(account.folders)
             /\ idx' = idx + 1
    /\ (cyclepc = "Authenticating" /\ cyclepc' = "Idle") => loginRet' # "OK"
    /\ (cyclepc = "Authenticating" /\ cyclepc' = "CheckingFolder") =>
          loginRet' = "OK"
    /\ (account' # account /\ mainpc # "start") =>
          (cyclepc = "Reporting" /\ cyclepc' = "Idle")
    /\ Len(notifs') # Len(notifs) =>
          (cyclepc = "Reporting" /\ cyclepc' = "Idle")

\* at every stage of a cycle under way the next statement can run,
\* whatever the IMAP call it waits for returns
NextStatementRuns ==
    /\ cyclepc = "Connecting" => ENABLED Connect
    /\ cyclepc = "Authenticating" =>
          \A ret \in {"OK", "NO"} : ENABLED Login(ret)
    /\ cyclepc = "CheckingFolder" =>
          /\ ENABLED CheckFolder("NO", "OK", 0)
          /\ ENABLED CheckFolder("OK", "NO", 0)
          /\ \A n \in 0..MaxUnseen : ENABLED CheckFolder("OK", "OK", n)
    /\ cyclepc = "LoggingOut" =>
          \A ret \in {"BYE", "NO"} : ENABLED Logout(ret)
    /\ cyclepc = "Reporting" => ENABLED Report
    /\ cyclepc \in {"Idle", "Connecting", "Authenticating", "CheckingFolder",
                    "LoggingOut", "Reporting"}

\* C16: every cycle goes through Connecting, Authenticating, the folder
\* checks, LoggingOut and Reporting in this order and back to Idle (a
\* failed login returns to Idle from Authenticating); in a cycle that
\* authenticates logout is called exactly once, after the last folder and
\* before the counter update and the notification; and every cycle that
\* has started returns to Idle with a directive, each IMAP call returning:
\* a cycle under way always has a next statement to run, and every
\* statement moves it forward through finitely many stages and folders
C16_CycleOrder ==
    /\ []CycleStages
    /\ []NextStatementRuns
    /\ [][CycleMove]_vars

\* C16 witness: a timer cycle over two folders has gone through its logout
\* and returned with a changed counter
C16_Witness ==
    /\ AuthenticatedCycleReturned
    /\ Len(account.folders) = 2
    /\ LoggedOutOnceAfterFolders
    /\ history[Len(history)].trigger = "timer"
    /\ history[Len(history)].after # history[Len(history)].before

\* the account without its counter
Settings(acc) == [acc EXCEPT !.unseen = 0]

\* C17: once the configuration is loaded no step changes a field of the
\* account other than unseen: not a poll cycle, not ignore_cb, not
\* open_browser_cb; and unseen is written only by the decision at the end
\* of a poll cycle, never while a callback of a notification runs
C17_AccountFrame ==
    [][ mainpc # "start" =>
          /\ Settings(account') = Settings(account)
          /\ Settings(account) = file.content
          /\ account'.unseen # account.unseen =>
                (cyclepc = "Reporting" /\ cyclepc' = "Idle")
          /\ notifs' # notifs /\ Len(notifs') = Len(notifs) =>
                account' = account
      ]_vars

\* C17 witness: the counter has been written by a cycle, a notification
\* has been dismissed and another closed, and the settings are those of
\* the configuration file
C17_Witness ==
    /\ account.unseen # 0
    /\ Settings(account) = file.content
    /\ \E i \in DOMAIN notifs : notifs[i].dismissed /\ notifs[i].state = "closed"
    /\ \E i \in DOMAIN notifs : notifs[i].opened # <<>>

\* the number a notification's message starts with
Announced(n) == IntOfDigits(SubSeq(n.message, 1, Len(n.message) - 4))

\* C18: with notify on, between cycles account['unseen'] is the total
\* announced by the latest notification, or 0 when none has been shown;
\* and no cycle shows more than one notification
C18_CounterIsLastAnnounced ==
    /\ (account.notify = "on" /\ cyclepc = "Idle") =>
          account.unseen = IF notifs = <<>> THEN 0
                           ELSE Announced(notifs[Len(notifs)])
    /\ \A i \in DOMAIN history : history[i].emitted \in {0, 1}
    /\ Len(notifs) <= Len(history)

\* C18 witness: between cycles, after two notifications with different
\* totals and a later cycle with total 0
C18_Witness ==
    /\ account.notify = "on"
    /\ cyclepc = "Idle"
    /\ Len(notifs) = 2
    /\ Announced(notifs[1]) # Announced(notifs[2])
    /\ Len(history) = 3
    /\ history[3].auth /\ history[3].total = 0
    /\ account.unseen = Announced(notifs[2])

\* C19: account['unseen'] is a non-negative integer in every state, and
\* no step takes it from a nonzero value to 0, whatever totals follow
C19_CounterNeverBackToZero ==
    /\ [](account.unseen \in Nat)
    /\ [][account.unseen # 0 => account'.unseen # 0]_vars

\* C19 witness: the counter is nonzero after a later cycle whose total
\* was 0
C19_Witness ==
    /\ account.unseen # 0
    /\ \E i \in DOMAIN history :
          /\ i > 1
          /\ history[i].auth /\ history[i].total = 0
          /\ history[i].before # 0

\* the login of the running or last cycle was answered with a failure
LoginWasRefused == loginRet \notin {"none", "OK"}

\* C20: a cycle whose login fails returns at once and does nothing else:
\* connect and login are its only IMAP calls (no select, no status, no
\* logout), the report stays empty, and the step that takes the refusal
\* leaves the counter and the notifications as they were
C20_FailedLoginHasNoEffect ==
    /\ [](LoginWasRefused =>
            /\ cyclepc = "Idle"
            /\ calls = <<"connect", "login">>
            /\ replies = <<>>
            /\ DOMAIN report = {}
            /\ logoutRet = "none"
            /\ history # <<>>
            /\ ~history[Len(history)].auth
            /\ history[Len(history)].after = history[Len(history)].before
            /\ history[Len(history)].emitted = 0
            /\ account.unseen = history[Len(history)].before)
    /\ [][(~LoginWasRefused /\ LoginWasRefused') =>
            (account' = account /\ notifs' = notifs)]_vars

\* C20 witness: a timer cycle's login was refused while the counter was
\* nonzero and a notification was on display
C20_Witness ==
    /\ LoginWasRefused
    /\ trigger = "timer"
    /\ account.unseen # 0
    /\ notifs # <<>>
    /\ calls = <<"connect", "login">>

====
